---- MODULE Spec2Model ----
(***************************************************************************)
(* Space-Nomad: the mission store, the upsert synchronizer                 *)
(* (update_spacex_data / create_or_update_mission), its three triggers     *)
(* (startup, periodic, background task), the HTTP handlers that touch the  *)
(* store, and the filtered / paginated query.                              *)
(***************************************************************************)
EXTENDS Integers, Sequences, FiniteSets, TLC

\* ---------------------------------------------------------------- bounds
NumSlots == 2          \* concurrent HTTP requests (threadpool workers)
MaxBatch == 2          \* records in one parsed external payload
MaxRows == 3           \* rows of the table a query runs against
MaxDate == 2           \* launch dates 1..MaxDate
MaxPage == 2           \* page numbers a query asks for
MaxSize == 2           \* page sizes a query asks for

\* ------------------------------------------------------------- processes
Startup == 0
Slots == 1..NumSlots
Periodic == NumSlots + 1
Procs == {Startup} \cup Slots \cup {Periodic}

\* ------------------------------------------------------------------ data
NoName == << >>
Falcon == <<"a", "b">>
Artemis == <<"A">>
Mission(name, status, launch_date) ==
    [name |-> name, status |-> status, launch_date |-> launch_date]

\* parse_mission_data yields mappings; mission.get(k) is falsy for a missing
\* key, None and "" alike, so one empty value stands for all three.
SyncRecords == {Mission(Falcon, "completed", 1), Mission(Falcon, "ongoing", 1),
                Mission(Falcon, "", 1), Mission(NoName, "completed", 1)}

RECURSIVE SeqsUpTo(_, _)
SeqsUpTo(S, n) ==
    IF n = 0 THEN {<< >>}
    ELSE LET shorter == SeqsUpTo(S, n - 1)
         IN shorter \cup {Append(s, x) : s \in {t \in shorter : Len(t) = n - 1}, x \in S}

\* spacex.spacex_data after parse_mission_data; << >> is "no response"
Payloads == SeqsUpTo(SyncRecords, MaxBatch)

\* payloads of POST /missions/ (schemas.MissionCreate)
CreatePayloads == {Mission(Falcon, "completed", 1), Mission(Artemis, "ongoing", 1)}

NoMission == Mission(NoName, "", 0)

VARIABLES
    missions,      \* the missions table, in insertion (rowid) order
    spacex_data,   \* the process-wide cache of the external payload
    proc,          \* per invocation: position, session, locals
    response       \* body of the last GET /missions/ response

vars == <<missions, spacex_data, proc, response>>

\* ------------------------------------------------------------- the store
\* db.query(Mission).filter(Mission.name == name).first(): position of the
\* first row with that name, 0 for None.
RECURSIVE FirstFrom(_, _, _)
FirstFrom(rows, name, i) ==
    IF i > Len(rows) THEN 0
    ELSE IF rows[i].name = name THEN i
    ELSE FirstFrom(rows, name, i + 1)

\* faulty variants of the lookup: it never finds a row; it drops its filter
get_mission_by_name_never(rows, name) == 0

get_mission_by_name_unfiltered(rows, name) == IF Len(rows) > 0 THEN 1 ELSE 0

get_mission_by_name(rows, name) == FirstFrom(rows, name, 1)

CountName(rows, name) == Cardinality({i \in 1..Len(rows) : rows[i].name = name})

\* The store's uniqueness constraint on name: an INSERT of a name already
\* present is refused (IntegrityError).
UniqueViolation(rows, name) == \E i \in 1..Len(rows) : rows[i].name = name

\* crud.create_mission: db.add; db.commit
create_mission(rows, mission) == Append(rows, mission)

\* faulty variants of the update branch: status is not copied; the row is
\* deleted and inserted again instead of being changed in place
update_mission_without_status(rows, found, mission_data) ==
    [rows EXCEPT ![found].launch_date = mission_data.launch_date]

update_mission_by_reinsert(rows, found, mission_data) ==
    Append(SubSeq(rows, 1, found - 1) \o SubSeq(rows, found + 1, Len(rows)),
           Mission(mission_data.name, mission_data.status, mission_data.launch_date))

\* create_or_update_mission, update branch: setattr for every key of
\* mission_data on the row found, then commit.
update_mission(rows, found, mission_data) ==
    [rows EXCEPT ![found] = Mission(mission_data.name, mission_data.status,
                                    mission_data.launch_date)]

\* crud.create_or_update_mission once the lookup has answered `found`
create_or_update_mission(rows, found, mission_data) ==
    IF found # 0 THEN update_mission(rows, found, mission_data)
    ELSE create_mission(rows, mission_data)

\* faulty variant of the validity test: status is not looked at
IsInvalid_name_only(mission) == mission.name = NoName

\* update_spacex_data's validity test: not mission.get("name") or not mission.get("status")
IsInvalid(mission) == mission.name = NoName \/ mission.status = ""

\* ------------------------------------------------------------- the query
\* Column.contains(keyword) renders  name LIKE '%' || keyword || '%' : in the
\* pattern "%" matches any run of characters and "_" any one character.
RECURSIVE LikeMatch(_, _)
LikeMatch(s, pat) ==
    IF pat = << >> THEN s = << >>
    ELSE IF Head(pat) = "%"
         THEN LikeMatch(s, Tail(pat)) \/ (s # << >> /\ LikeMatch(Tail(s), pat))
    ELSE IF s = << >> THEN FALSE
    ELSE (Head(pat) = "_" \/ Head(pat) = Head(s)) /\ LikeMatch(Tail(s), Tail(pat))

contains(name, keyword) == LikeMatch(name, <<"%">> \o keyword \o <<"%">>)

\* start_date, end_date: 0 stands for None / "" (falsy); keyword << >> likewise.
Selected(m, start_date, end_date, keyword) ==
    /\ (start_date # 0 => m.launch_date >= start_date)
    /\ (end_date # 0 => m.launch_date <= end_date)
    /\ (keyword # << >> => contains(m.name, keyword))

RECURSIVE Filtered(_, _, _, _)
Filtered(rows, start_date, end_date, keyword) ==
    IF rows = << >> THEN << >>
    ELSE LET rest == Filtered(Tail(rows), start_date, end_date, keyword)
         IN IF Selected(Head(rows), start_date, end_date, keyword)
            THEN <<Head(rows)>> \o rest
            ELSE rest

\* ORDER BY launch_date ASC | DESC, ties kept in table order (a stable sort)
Before(a, b, sort_order) ==
    IF sort_order = "asc" THEN a.launch_date < b.launch_date
    ELSE a.launch_date > b.launch_date

RECURSIVE InsertSorted(_, _, _)
InsertSorted(sorted, m, sort_order) ==
    IF sorted = << >> THEN <<m>>
    ELSE IF Before(m, Head(sorted), sort_order) THEN <<m>> \o sorted
    ELSE <<Head(sorted)>> \o InsertSorted(Tail(sorted), m, sort_order)

RECURSIVE Sorted(_, _)
Sorted(rows, sort_order) ==
    IF rows = << >> THEN << >>
    ELSE InsertSorted(Sorted(SubSeq(rows, 1, Len(rows) - 1), sort_order),
                      rows[Len(rows)], sort_order)

\* getattr(models.Mission, sort_by, None): only a real attribute sorts
Ordered(rows, sort_by, sort_order) ==
    IF sort_by = "launch_date" THEN Sorted(rows, sort_order) ELSE rows

\* query.offset(n): drop the first n rows
RECURSIVE Offset(_, _)
Offset(rows, n) ==
    IF n <= 0 \/ rows = << >> THEN rows ELSE Offset(Tail(rows), n - 1)

\* query.limit(n): keep the first n rows
RECURSIVE Limit(_, _)
Limit(rows, n) ==
    IF n <= 0 \/ rows = << >> THEN << >> ELSE <<Head(rows)>> \o Limit(Tail(rows), n - 1)

\* faulty variant of the offset: pages counted from 0
PageOffset_zero_based(page, size) == page * size

\* .offset((page - 1) * size)
PageOffset(page, size) == (page - 1) * size

get_filtered_missions(rows, page, size, start_date, end_date, keyword, sort_by, sort_order) ==
    Limit(Offset(Ordered(Filtered(rows, start_date, end_date, keyword), sort_by, sort_order),
                 PageOffset(page, size)),
          size)

\* defaults of GET /missions/ and the limit GET /index passes
DefaultPage == 1
DefaultSize == 10
IndexLimit == 100

\* crud.get_missions(db, skip, limit)
get_missions(rows, skip, limit) == Limit(Offset(rows, skip), limit)

Query(page, size, start_date, end_date, keyword, sort_by, sort_order) ==
    [page |-> page, size |-> size, start_date |-> start_date, end_date |-> end_date,
     keyword |-> keyword, sort_by |-> sort_by, sort_order |-> sort_order]

DefaultQuery == Query(DefaultPage, DefaultSize, 0, 0, << >>, "none", "asc")

NoResponse == [query |-> DefaultQuery, status |-> "none", missions |-> << >>]

\* ------------------------------------------------------------------ Init
IdleProc == [pc |-> "idle", kind |-> "none", sess |-> "none", gen |-> "none",
             exited |-> FALSE, idx |-> 1,
             mission |-> NoMission, found |-> 0, result |-> "none", outcome |-> "none"]

KindOf(p) == IF p = Startup THEN "startup" ELSE IF p = Periodic THEN "periodic" ELSE "none"

Init ==
    /\ missions = << >>
    /\ spacex_data \in Payloads
    /\ proc = [p \in Procs |-> [IdleProc EXCEPT !.kind = KindOf(p)]]
    /\ response = NoResponse

\* the startup handlers have run: the application serves requests
Started == proc[Startup].pc = "finished"

\* ----------------------------------------------------------- session use
\* db = next(get_db()): the session is created and yielded, and the generator
\* is left suspended at its yield with no reference to it.  Reference
\* counting finalizes it before the statement is over: GeneratorExit is thrown
\* at the yield and the finally clause closes db.  A closed Session begins
\* a new transaction on its next use.
NextGetDb(kind, pc) ==
    [IdleProc EXCEPT !.kind = kind, !.pc = pc, !.sess = "closed", !.gen = "finalized"]

\* get_db as a FastAPI dependency: the framework drives the generator.
DependsGetDb(kind, pc) ==
    [IdleProc EXCEPT !.kind = kind, !.pc = pc, !.sess = "fresh", !.gen = "managed"]

\* The framework resumes a dependency's generator after the handler: before
\* the background tasks or after them, depending on the FastAPI release.
DepExit(p) ==
    /\ proc[p].gen = "managed"
    /\ ~proc[p].exited
    /\ proc[p].pc \in {"handler_done", "sync_read", "bg_done"}
    /\ proc' = [proc EXCEPT ![p].sess = "closed", ![p].exited = TRUE,
                            ![p].pc = IF proc[p].pc = "sync_read" THEN "sync_read" ELSE "done"]
    /\ UNCHANGED <<missions, spacex_data, response>>

\* the invocation is over and its frame is dropped
Reap(p) ==
    /\ proc[p].pc = "done"
    /\ proc' = [proc EXCEPT ![p] = [IdleProc EXCEPT !.kind = KindOf(p),
                                       !.pc = IF p = Startup THEN "finished" ELSE "idle"]]
    /\ response' = NoResponse
    /\ UNCHANGED <<missions, spacex_data>>

\* ---------------------------------------------------------------- triggers
Caught == {"ConnectionError", "ValueError"}

\* update_spacex_data has returned or raised: its locals are gone
Finish(p, pc, outcome) ==
    [proc[p] EXCEPT !.pc = pc, !.outcome = outcome,
                    !.idx = 1, !.mission = NoMission, !.found = 0]

\* load_initial_data: except ConnectionError / except ValueError around the call
StartupReturn(p, exc) ==
    Finish(p, "done", IF exc = "none" THEN "ok"
                      ELSE IF exc \in Caught THEN "caught" ELSE "crashed")

\* periodic_mission_update: the call stands bare; repeat_every goes on
PeriodicReturn(p, exc) ==
    Finish(p, "done", IF exc = "none" THEN "ok"
                      ELSE IF exc \in Caught THEN "escaped" ELSE "crashed")

\* the task added by trigger_spacex_update: the call stands bare
BackgroundReturn(p, exc) ==
    Finish(p, IF proc[p].exited THEN "done" ELSE "bg_done",
           IF exc = "none" THEN "ok"
           ELSE IF exc \in Caught THEN "escaped" ELSE "crashed")

Return(p, exc) ==
    IF proc[p].kind = "startup" THEN StartupReturn(p, exc)
    ELSE IF proc[p].kind = "periodic" THEN PeriodicReturn(p, exc)
    ELSE BackgroundReturn(p, exc)

\* ------------------------------------------------------ update_spacex_data
\* the for loop moves to the next record, or ends and the function returns
Advance(p) ==
    IF proc[p].idx + 1 > Len(spacex_data) THEN Return(p, "none")
    ELSE [proc[p] EXCEPT !.idx = @ + 1, !.pc = "sync_loop"]

SyncRead(p) ==
    /\ proc[p].pc = "sync_read"
    /\ IF spacex_data = << >>
       THEN proc' = [proc EXCEPT ![p] = Return(p, "none")]
       ELSE \/ proc' = [proc EXCEPT ![p].idx = 1, ![p].pc = "sync_loop"]
            \/ \E exc \in Caught : proc' = [proc EXCEPT ![p] = Return(p, exc)]
    /\ UNCHANGED <<missions, spacex_data, response>>

SyncSkip(p) ==
    /\ proc[p].pc = "sync_loop"
    /\ proc[p].idx <= Len(spacex_data)
    /\ IsInvalid(spacex_data[proc[p].idx])
    /\ proc' = [proc EXCEPT ![p] = Advance(p)]
    /\ UNCHANGED <<missions, spacex_data, response>>

SyncLookup(p) ==
    /\ proc[p].pc = "sync_loop"
    /\ proc[p].idx <= Len(spacex_data)
    /\ ~IsInvalid(spacex_data[proc[p].idx])
    /\ LET m == spacex_data[proc[p].idx]
       IN proc' = [proc EXCEPT ![p].mission = m,
                               ![p].found = get_mission_by_name(missions, m.name),
                               ![p].sess = "active",
                               ![p].pc = "sync_write"]
    /\ UNCHANGED <<missions, spacex_data, response>>

SyncWrite(p) ==
    /\ proc[p].pc = "sync_write"
    /\ IF proc[p].found = 0 /\ UniqueViolation(missions, proc[p].mission.name)
       THEN /\ proc' = [proc EXCEPT ![p] = Return(p, "IntegrityError")]
            /\ UNCHANGED missions
       ELSE /\ missions' = create_or_update_mission(missions, proc[p].found, proc[p].mission)
            /\ proc' = [proc EXCEPT ![p] = [Advance(p) EXCEPT !.sess = "active"]]
    /\ UNCHANGED <<spacex_data, response>>

LoadInitialData ==
    /\ proc[Startup].pc = "idle"
    /\ proc' = [proc EXCEPT ![Startup] = NextGetDb("startup", "sync_read")]
    /\ UNCHANGED <<missions, spacex_data, response>>

PeriodicMissionUpdate ==
    /\ Started
    /\ proc[Periodic].pc = "idle"
    /\ proc' = [proc EXCEPT ![Periodic] = NextGetDb("periodic", "sync_read")]
    /\ UNCHANGED <<missions, spacex_data, response>>

\* ------------------------------------------------------------ HTTP handlers
TriggerSpacexUpdate(p) ==
    /\ Started
    /\ proc[p].pc = "idle"
    /\ proc' = [proc EXCEPT ![p] = [DependsGetDb("trigger", "sync_read")
                                       EXCEPT !.result = "200"]]
    /\ UNCHANGED <<missions, spacex_data, response>>

CreateBegin(p) ==
    /\ Started
    /\ proc[p].pc = "idle"
    /\ \E payload \in CreatePayloads :
          proc' = [proc EXCEPT ![p] = [DependsGetDb("create", "create_check")
                                          EXCEPT !.mission = payload]]
    /\ UNCHANGED <<missions, spacex_data, response>>

CreateCheck(p) ==
    /\ proc[p].pc = "create_check"
    /\ LET existing == get_mission_by_name(missions, proc[p].mission.name)
       IN proc' = [proc EXCEPT ![p].found = existing,
                               ![p].sess = "active",
                               ![p].result = IF existing # 0 THEN "400" ELSE "none",
                               ![p].pc = IF existing # 0 THEN "handler_done"
                                         ELSE "create_insert"]
    /\ UNCHANGED <<missions, spacex_data, response>>

CreateInsert(p) ==
    /\ proc[p].pc = "create_insert"
    /\ IF UniqueViolation(missions, proc[p].mission.name)
       THEN /\ proc' = [proc EXCEPT ![p].result = "500",
                                    ![p].pc = "handler_done"]
            /\ UNCHANGED missions
       ELSE /\ missions' = create_mission(missions, proc[p].mission)
            /\ proc' = [proc EXCEPT ![p].result = "200",
                                    ![p].pc = "handler_done"]
    /\ UNCHANGED <<spacex_data, response>>

ReadHomeBegin(p) ==
    /\ Started
    /\ proc[p].pc = "idle"
    /\ proc' = [proc EXCEPT ![p] = NextGetDb("index", "index_query")]
    /\ UNCHANGED <<missions, spacex_data, response>>

ReadHome(p) ==
    /\ proc[p].pc = "index_query"
    /\ proc' = [proc EXCEPT ![p].sess = "active", ![p].result = "200", ![p].pc = "done"]
    /\ UNCHANGED <<missions, spacex_data, response>>

Next ==
    \/ LoadInitialData
    \/ PeriodicMissionUpdate
    \/ \E p \in Procs : Reap(p)
    \/ \E p \in Procs : SyncRead(p)
    \/ \E p \in Procs : SyncSkip(p)
    \/ \E p \in Procs : SyncLookup(p)
    \/ \E p \in Procs : SyncWrite(p)
    \/ \E p \in Slots : DepExit(p)
    \/ \E p \in Slots : TriggerSpacexUpdate(p)
    \/ \E p \in Slots : CreateBegin(p)
    \/ \E p \in Slots : CreateCheck(p)
    \/ \E p \in Slots : CreateInsert(p)
    \/ \E p \in Slots : ReadHomeBegin(p)
    \/ \E p \in Slots : ReadHome(p)

Spec == Init /\ [][Next]_vars

\* ------------------------------------------------- GET /missions/ on its own
Starlink == <<"b", "_">>
QueryNames == {Falcon, Artemis, Starlink}
QueryRows == [name : QueryNames, status : {"completed"}, launch_date : 1..MaxDate]
QueryStores ==
    {rows \in SeqsUpTo(QueryRows, MaxRows) :
        \A i, j \in 1..Len(rows) : rows[i].name = rows[j].name => i = j}
Keywords == {<< >>, <<"a">>, <<"_">>, <<"a", "b">>}
SortKeys == {"none", "launch_date", "bogus"}

\* get_missions (main.py): the handler passes no sort_by; the crud function
\* is also exercised with one.  One query is followed at a time, on the
\* first worker: the response is kept until the request that produced it is over.
GetMissions(p) ==
    /\ Started
    /\ proc[p].pc = "idle"
    /\ response.status = "none"
    /\ \E page \in 1..MaxPage, size \in 1..MaxSize, start_date \in 0..MaxDate,
          end_date \in 0..MaxDate, keyword \in Keywords, sort_by \in SortKeys,
          sort_order \in {"asc", "desc"} :
          /\ sort_by # "launch_date" => sort_order = "asc"
          /\ response' =
                [query |-> Query(page, size, start_date, end_date, keyword, sort_by, sort_order),
                 status |-> "200",
                 missions |-> get_filtered_missions(missions, page, size, start_date,
                                                    end_date, keyword, sort_by, sort_order)]
    /\ proc' = [proc EXCEPT ![p] = [DependsGetDb("missions", "handler_done")
                                       EXCEPT !.sess = "active", !.result = "200"]]
    /\ UNCHANGED <<missions, spacex_data>>

InitQuery ==
    /\ missions \in QueryStores
    /\ spacex_data = << >>
    /\ proc = [p \in Procs |-> [IdleProc EXCEPT !.kind = KindOf(p),
                                   !.pc = IF p = Startup THEN "finished" ELSE "idle"]]
    /\ response = NoResponse

NextQuery ==
    \/ GetMissions(1)
    \/ DepExit(1)
    \/ Reap(1)

SpecQuery == InitQuery /\ [][NextQuery]_vars

\* ================================================================== claims
Malformed(m) == m.name = << >> \/ m.status = ""

\* p's loop takes its next record
SyncStep(p) ==
    /\ proc[p].pc = "sync_loop"
    /\ proc'[p].pc # "sync_loop" \/ proc'[p].idx # proc[p].idx

\* p's create_or_update_mission call commits
Upserted(p) ==
    /\ proc[p].pc = "sync_write"
    /\ proc'[p].pc # "sync_write"
    /\ proc'[p].outcome # "crashed"

\* the loop goes on to the next record, or is over and returns normally
GoesOn(p) ==
    IF proc[p].idx < Len(spacex_data)
    THEN proc'[p].pc = "sync_loop" /\ proc'[p].idx = proc[p].idx + 1
    ELSE proc'[p].outcome = "ok"

\* C1: whenever the synchronizer's upsert of a record commits, the store holds
\* exactly one record of that name afterwards and it carries the field values
\* of that call; so a second upsert of the same name leaves one record with
\* the second call's values.
C1_UpsertIdempotent ==
    [][\A p \in Procs :
          Upserted(p) =>
             /\ CountName(missions', proc[p].mission.name) = 1
             /\ \A i \in 1..Len(missions') :
                   missions'[i].name = proc[p].mission.name
                      => /\ missions'[i].status = proc[p].mission.status
                         /\ missions'[i].launch_date = proc[p].mission.launch_date]_vars

\* the spec's scenario: Falcon/completed then Falcon/ongoing, one record, ongoing
C1_Witness ==
    /\ proc[Startup].pc = "done"
    /\ proc[Startup].outcome = "ok"
    /\ spacex_data = <<Mission(Falcon, "completed", 1), Mission(Falcon, "ongoing", 1)>>
    /\ missions = <<Mission(Falcon, "ongoing", 1)>>

\* C2: POST /missions/ with a name the store holds answers 400 and leaves the
\* store as it was, with one record of that name; with a name the store does
\* not hold it goes on to insert, and the insert adds exactly one record.
C2_CreateRejectsDuplicate ==
    [][\A p \in Slots :
          /\ (proc[p].pc = "create_check" /\ proc'[p].pc # "create_check") =>
                IF CountName(missions, proc[p].mission.name) > 0
                THEN /\ proc'[p].result = "400"
                     /\ missions' = missions
                     /\ CountName(missions', proc[p].mission.name) = 1
                ELSE proc'[p].pc = "create_insert" /\ missions' = missions
          /\ (proc[p].pc = "create_insert" /\ proc'[p].result = "200") =>
                /\ CountName(missions, proc[p].mission.name) = 0
                /\ Len(missions') = Len(missions) + 1
                /\ SubSeq(missions', 1, Len(missions)) = missions
                /\ missions'[Len(missions')] = proc[p].mission]_vars

C2_Witness ==
    \E p \in Slots :
       /\ proc[p].kind = "create"
       /\ proc[p].result = "400"
       /\ proc[p].mission.name = Artemis
       /\ CountName(missions, Artemis) = 1

C4_SyncValidation ==
    [][\A p \in Procs :
          /\ (SyncStep(p) /\ Malformed(spacex_data[proc[p].idx])) =>
                missions' = missions /\ GoesOn(p)
          /\ (SyncStep(p) /\ ~Malformed(spacex_data[proc[p].idx])) =>
                /\ proc'[p].pc = "sync_write"
                /\ proc'[p].mission = spacex_data[proc[p].idx]
          /\ Upserted(p) =>
                /\ ~Malformed(proc[p].mission)
                /\ proc[p].mission = spacex_data[proc[p].idx]
                /\ \E i \in 1..Len(missions') : missions'[i] = proc[p].mission
                /\ GoesOn(p)]_vars

\* a malformed record came first and the one after it was still upserted
C4_Witness ==
    /\ proc[Startup].pc = "done"
    /\ proc[Startup].outcome = "ok"
    /\ Len(spacex_data) = 2
    /\ Malformed(spacex_data[1])
    /\ ~Malformed(spacex_data[2])
    /\ missions = <<spacex_data[2]>>

\* C5: no connection or value error raised in a synchronization run leaves
\* the function that triggered the run.
C5_ErrorsContained == \A p \in Procs : proc[p].outcome # "escaped"

\* C8: no invocation is over with its session holding a transaction.
C8_SessionsReleased == \A p \in Procs : proc[p].pc = "done" => proc[p].sess # "active"

\* C9: no step removes a record or renames one: the table only grows at its
\* end, and an upsert of a name the lookup found leaves its length alone.
C9_NeverDeleted ==
    [][/\ Len(missions') >= Len(missions)
       /\ \A i \in 1..Len(missions) : missions'[i].name = missions[i].name
       /\ \A p \in Procs :
             (Upserted(p) /\ proc[p].found # 0) => Len(missions') = Len(missions)]_vars

\* the periodic run has just rewritten Falcon in place, beside Artemis
C9_Witness ==
    /\ proc[Periodic].pc = "sync_loop"
    /\ proc[Periodic].idx = 2
    /\ spacex_data = <<Mission(Falcon, "completed", 1), Mission(Falcon, "ongoing", 1)>>
    /\ missions = <<Mission(Falcon, "completed", 1), Mission(Artemis, "ongoing", 1)>>

\* C10: once a request's dependency has released its session, no store
\* operation is issued on that session.
C10_NoUseAfterRelease ==
    [][\A p \in Slots :
          ~(proc[p].exited /\ proc[p].sess = "closed" /\ proc'[p].sess = "active")]_vars

\* ------------------------------------------------------- claims on the query
FilteredSorted(q) ==
    Ordered(Filtered(missions, q.start_date, q.end_date, q.keyword), q.sort_by, q.sort_order)

RECURSIVE PagesFrom(_, _, _)
PagesFrom(q, page, last) ==
    IF page > last THEN << >>
    ELSE get_filtered_missions(missions, page, q.size, q.start_date, q.end_date,
                               q.keyword, q.sort_by, q.sort_order)
         \o PagesFrom(q, page + 1, last)

Min(a, b) == IF a < b THEN a ELSE b
Max(a, b) == IF a > b THEN a ELSE b

\* C6: page p of size s holds at most s records, those at positions
\* (p-1)*s+1 .. p*s of the filtered and sorted sequence, and the pages laid
\* end to end are that sequence.
C6_PaginationPartitions ==
    response.status = "200" =>
       LET q == response.query
           fs == FilteredSorted(q)
           first == (q.page - 1) * q.size
           got == response.missions
       IN /\ Len(got) <= q.size
          /\ Len(got) = Max(0, Min(q.size, Len(fs) - first))
          /\ \A i \in 1..Len(got) : got[i] = fs[first + i]
          /\ PagesFrom(q, 1, Len(fs) + 1) = fs

\* the middle page of three
C6_Witness ==
    /\ response.status = "200"
    /\ response.query.page = 2
    /\ response.query.size = 1
    /\ Len(FilteredSorted(response.query)) = 3
    /\ response.missions = <<FilteredSorted(response.query)[2]>>

IsSubstring(name, keyword) ==
    \E i \in 1..(Len(name) - Len(keyword) + 1) :
       SubSeq(name, i, i + Len(keyword) - 1) = keyword

ExactlySelected(m, q) ==
    /\ (q.start_date # 0 => m.launch_date >= q.start_date)
    /\ (q.end_date # 0 => m.launch_date <= q.end_date)
    /\ (q.keyword # << >> => IsSubstring(m.name, q.keyword))

\* C7: the records a query selects are exactly those inside the date range
\* whose name has the keyword as a substring.
C7_FiltersExact ==
    response.status = "200" =>
       LET q == response.query
           sel == Filtered(missions, q.start_date, q.end_date, q.keyword)
       IN /\ \A i \in 1..Len(sel) : ExactlySelected(sel[i], q)
          /\ \A i \in 1..Len(missions) :
                ExactlySelected(missions[i], q) => \E j \in 1..Len(sel) : sel[j] = missions[i]

====
